---- MODULE Spec2Model ----
(***************************************************************************)
(* Model of src/main.py: the duplicate scanner's two callbacks             *)
(* (open_directory_selector, scan_directory) and the helpers they call.   *)
(*                                                                         *)
(* A path is a sequence of components; an absolute path starts with "/".   *)
(* A file's content is a sequence of byte values.  The text of the         *)
(* "directory_text" widget is held as a path too: the placeholder is the   *)
(* one-component sequence <<"No directory selected.">> and the empty       *)
(* string is <<>>.  The text "Selected Directory: " that line 68 removes   *)
(* is a piece of its own: <<"/", Label, "scan">> is the directory          *)
(* "/Selected Directory: scan".                                            *)
(*                                                                         *)
(* The scanned tree is one directory holding up to MaxFiles files.  File   *)
(* names play no role in scan_directory beyond identity and the order in   *)
(* which os.walk lists them, and that order is arbitrary (os.scandir), so  *)
(* Init lists the contents in non-decreasing order and every scan draws    *)
(* the order of its walk from all the orders.                              *)
(***************************************************************************)
EXTENDS Integers, Sequences, FiniteSets, TLC

\* Number of files under the scanned directory.
MaxFiles == 4

\* xxprehashsum's `size` (8**6 in the source), scaled so that files longer
\* than the prefix fit the bounds.
PrefixSize == 1

\* Files are up to one byte longer than the hashed prefix.
MaxLen == PrefixSize + 1

\* Byte values.
Byte == 1..2

FileNames == <<"f1", "f2", "f3", "f4", "f5", "f6">>

Placeholder == <<"No directory selected.">>
ScanRoot == <<"/", "scan">>
MissingDir == <<"/", "missing">>

\* The text line 68 removes, and a directory whose name begins with it.
Label == "Selected Directory: "
LabelledDir == <<"/", Label, "scan">>

Contents == UNION {[1..n -> Byte] : n \in 0..MaxLen}

VARIABLES
    fs,               \* the tree: fs[i] is the content of file FileNames[i]
    dirs,             \* the directories that exist
    directory_text,   \* dpg value "directory_text"
    pc,               \* where scan_directory is
    walk,             \* what the hashing os.walk has still to yield
    total_files,
    processed_files,
    hashes,           \* dict: prefix digest -> relative path
    duplicates,       \* dict (insertion-ordered): prefix digest -> paths
    true_duplicates,  \* dict (insertion-ordered): full digest -> paths
    bucket,           \* index of the item of duplicates.items() in hand
    pos,              \* index into all_paths of the path to hash next
    full_hash,
    matches,
    contents_exists,  \* dpg item "directory_contents" exists
    table_shown,      \* the result table was added to it
    table,            \* the table's rows
    progress_text,    \* value of progress_text_tag
    prehash_reads,    \* per file: xxprehashsum reads done by the running scan
    full_reads,       \* per file: xxhashsum reads done by the running scan
    reports,          \* progress reports made by the running scan's hashing loop
    has_prev,         \* a result table was on display when this scan began
    prev_groups,      \* its groups
    cancel_signal     \* the caller's cancellation request

vars == <<fs, dirs, directory_text, pc, walk, total_files, processed_files, hashes,
          duplicates, true_duplicates, bucket, pos, full_hash, matches,
          contents_exists, table_shown, table, progress_text, prehash_reads,
          full_reads, reports, has_prev, prev_groups, cancel_signal>>

-----------------------------------------------------------------------------
(* Paths and the file system *)

IsAbs(p) == p # <<>> /\ p[1] = "/"

\* os.path.join(a, b)
Join(a, b) == IF IsAbs(b) THEN b ELSE a \o b

\* os.path.relpath(path, start), for a path under start
Relpath(path, start) == SubSeq(path, Len(start) + 1, Len(path))

\* os.path.isdir
isdir(p) == p \in dirs

Files == 1..Len(fs)

AbsPath(i) == Join(ScanRoot, <<FileNames[i]>>)

FileIndex(path) == CHOOSE i \in Files : AbsPath(i) = path

\* f.read() / hashlib.file_digest: the whole content
ReadAll(path) == fs[FileIndex(path)]

\* f.read(size): at most size bytes from the start
ReadUpTo(path, size) ==
    LET data == ReadAll(path)
    IN  SubSeq(data, 1, IF Len(data) < size THEN Len(data) ELSE size)

\* os.path.getsize
getsize(path) == Len(ReadAll(path))

\* xxh128(...).hexdigest(): a digest of the bytes, free of collisions on
\* the contents within the bounds.
RECURSIVE xxh128(_)
xxh128(data) ==
    IF data = <<>> THEN 0
    ELSE Head(data) + (Cardinality(Byte) + 1) * xxh128(Tail(data))

\* Variant: a full hash that stops at the prefix.
xxhashsum_prefix(filename) == xxh128(ReadUpTo(filename, PrefixSize))

xxhashsum(filename) == xxh128(ReadAll(filename))

xxprehashsum(filename) == xxh128(ReadUpTo(filename, PrefixSize))

-----------------------------------------------------------------------------
(* scan_directory's pure parts *)

NotLabel(piece) == piece # Label

\* line 68: .replace("Selected Directory: ", "")
StripLabel(text) == SelectSeq(text, NotLabel)

\* lines 69-73
InvalidDirectory(directory_path) ==
    \/ directory_path = <<>>
    \/ directory_path = Placeholder
    \/ ~isdir(directory_path)

\* os.walk(directory_path): the files it yields, in one of the orders
\* os.scandir may list them in; nothing for what is no directory.
WalkOrders(directory_path) ==
    IF isdir(directory_path) /\ directory_path = ScanRoot
    THEN {[k \in Files |-> AbsPath(p[k])] : p \in Permutations(Files)}
    ELSE {<<>>}

\* Variant: a count that misses one file.
CountFiles_offByOne(directory_path) ==
    IF isdir(directory_path) /\ directory_path = ScanRoot /\ Len(fs) > 0
    THEN Len(fs) - 1 ELSE 0

\* line 90: sum(len(files) for _, _, files in os.walk(directory_path))
CountFiles(directory_path) ==
    IF isdir(directory_path) /\ directory_path = ScanRoot THEN Len(fs) ELSE 0

DictIndex(d, key) == CHOOSE k \in 1..Len(d) : d[k].key = key

HasKey(d, key) == \E k \in 1..Len(d) : d[k].key = key

\* d[key] = val on an insertion-ordered dict
DictSet(d, key, val) ==
    IF HasKey(d, key)
    THEN [d EXCEPT ![DictIndex(d, key)] = [key |-> key, val |-> val]]
    ELSE Append(d, [key |-> key, val |-> val])

\* d.get(key, [])
DictGet(d, key) == IF HasKey(d, key) THEN d[DictIndex(d, key)].val ELSE <<>>

\* lines 105-111
InsertCandidate(filehash, relative_path) ==
    IF filehash \in DOMAIN hashes
    THEN /\ duplicates' = DictSet(duplicates, filehash,
                                  Append(DictGet(duplicates, filehash), relative_path))
         /\ UNCHANGED hashes
    ELSE /\ hashes' = (filehash :> relative_path) @@ hashes
         /\ UNCHANGED duplicates

\* lines 126-127: the next item of duplicates.items() that is not skipped
RECURSIVE SkipMissing(_, _, _)
SkipMissing(d, h, k) ==
    IF k > Len(d) THEN k
    ELSE IF d[k].key \notin DOMAIN h THEN SkipMissing(d, h, k + 1)
    ELSE k

\* Variant: the first path listed, and so hashed, a second time.
all_paths_rereadFirst(item, directory_path) ==
    [k \in 1..(Len(item.val) + 2) |->
        Join(directory_path,
             (item.val \o <<hashes[item.key]>> \o <<item.val[1]>>)[k])]

\* lines 129-132
all_paths(item, directory_path) ==
    [k \in 1..(Len(item.val) + 1) |->
        Join(directory_path, (item.val \o <<hashes[item.key]>>)[k])]

\* lines 150-155
file_size(item, directory_path) == getsize(Join(directory_path, item.val[1]))

\* Variant: the sort without reverse=True.
InsertBySize_ascending(s, x, directory_path) ==
    LET n == Cardinality({k \in 1..Len(s) :
                file_size(s[k], directory_path) <= file_size(x, directory_path)})
    IN  SubSeq(s, 1, n) \o <<x>> \o SubSeq(s, n + 1, Len(s))

\* sorted(..., reverse=True) is stable: x goes behind every item whose
\* size is not smaller
InsertBySize(s, x, directory_path) ==
    LET n == Cardinality({k \in 1..Len(s) :
                file_size(s[k], directory_path) >= file_size(x, directory_path)})
    IN  SubSeq(s, 1, n) \o <<x>> \o SubSeq(s, n + 1, Len(s))

\* lines 156-158
RECURSIVE sorted_duplicates(_, _)
sorted_duplicates(td, directory_path) ==
    IF td = <<>> THEN <<>>
    ELSE InsertBySize(sorted_duplicates(SubSeq(td, 1, Len(td) - 1), directory_path),
                      td[Len(td)], directory_path)

\* Variant: no row skipped.
SkipRow_never(size) == FALSE

\* lines 171-172
SkipRow(size) == size = 0

\* lines 168-185: one table row per item that is not skipped
RECURSIVE TableRows(_, _)
TableRows(sd, directory_path) ==
    IF sd = <<>> THEN <<>>
    ELSE LET size == file_size(sd[1], directory_path)
             rest == TableRows(Tail(sd), directory_path)
         IN  IF SkipRow(size) THEN rest
             ELSE <<[size |-> size, tag |-> sd[1].key, paths |-> sd[1].val]>> \o rest

SeqToSet(s) == {s[k] : k \in 1..Len(s)}

\* The groups a table shows, order put aside.
Groups(t) == {[size |-> t[k].size, members |-> SeqToSet(t[k].paths)] : k \in 1..Len(t)}

-----------------------------------------------------------------------------
(* State *)

NoReads == [i \in Files |-> 0]

\* line 68: directory_path
DirectoryPath == StripLabel(directory_text)

\* Either ScanRoot exists and holds the files, or the directory named with
\* the label does and ScanRoot does not.
Init ==
    /\ dirs \in {{ScanRoot}, {LabelledDir}}
    /\ fs \in UNION {{f \in [1..n -> Contents] :
                        \A i, j \in 1..n : i < j => xxh128(f[i]) <= xxh128(f[j])}
                     : n \in 0..MaxFiles}
    /\ (ScanRoot \notin dirs) => fs = <<>>
    /\ directory_text = Placeholder
    /\ pc = "idle"
    /\ walk = <<>>
    /\ total_files = 0
    /\ processed_files = 0
    /\ hashes = <<>>
    /\ duplicates = <<>>
    /\ true_duplicates = <<>>
    /\ bucket = 1
    /\ pos = 1
    /\ full_hash = 0
    /\ matches = <<>>
    /\ contents_exists = FALSE
    /\ table_shown = FALSE
    /\ table = <<>>
    /\ progress_text = <<>>
    /\ prehash_reads = NoReads
    /\ full_reads = NoReads
    /\ reports = 0
    /\ has_prev = FALSE
    /\ prev_groups = {}
    /\ cancel_signal = FALSE

Running == pc \in {"hashing", "confirming"}

\* scan_directory's locals go when it returns or raises, and with them the
\* account of the running scan's reads and reports
DropLocals ==
    /\ walk' = <<>>
    /\ total_files' = 0
    /\ processed_files' = 0
    /\ hashes' = <<>>
    /\ duplicates' = <<>>
    /\ true_duplicates' = <<>>
    /\ bucket' = 1
    /\ pos' = 1
    /\ full_hash' = 0
    /\ matches' = <<>>
    /\ prehash_reads' = NoReads
    /\ full_reads' = NoReads
    /\ reports' = 0

LocalsUnchanged ==
    UNCHANGED <<walk, total_files, processed_files, hashes, duplicates,
                true_duplicates, bucket, pos, full_hash, matches, prehash_reads,
                full_reads, reports>>

\* An exception leaves scan_directory: the windows made so far stay
Raise ==
    /\ pc' = "aborted"
    /\ DropLocals

-----------------------------------------------------------------------------
(* Callbacks *)

\* open_directory_selector: the dialog gives "" when it is cancelled
open_directory_selector(directory_path) ==
    /\ ~Running
    /\ directory_text' = IF directory_path # <<>> THEN directory_path ELSE directory_text
    /\ UNCHANGED <<fs, dirs, pc, contents_exists, table_shown, table, progress_text,
                   has_prev, prev_groups, cancel_signal>>
    /\ LocalsUnchanged

\* lines 68-75
ScanInvalid ==
    /\ ~Running
    /\ InvalidDirectory(DirectoryPath)
    /\ pc' = "invalid"
    /\ UNCHANGED <<fs, dirs, directory_text, contents_exists, table_shown, table,
                   progress_text, has_prev, prev_groups, cancel_signal>>
    /\ LocalsUnchanged

\* lines 68-96, and the start of the walk of line 99
ScanBegin ==
    /\ ~Running
    /\ ~InvalidDirectory(DirectoryPath)
    /\ contents_exists' = TRUE
    /\ table_shown' = FALSE
    /\ table' = <<>>
    /\ hashes' = <<>>
    /\ duplicates' = <<>>
    /\ true_duplicates' = <<>>
    /\ total_files' = CountFiles(DirectoryPath)
    /\ processed_files' = 0
    /\ progress_text' = <<0, CountFiles(DirectoryPath)>>
    /\ walk' \in WalkOrders(DirectoryPath)
    /\ pc' = IF walk' = <<>> THEN "confirming" ELSE "hashing"
    /\ bucket' = 1
    /\ pos' = 1
    /\ full_hash' = 0
    /\ matches' = <<>>
    /\ prehash_reads' = NoReads
    /\ full_reads' = NoReads
    /\ reports' = 0
    /\ UNCHANGED <<fs, dirs, directory_text, cancel_signal>>

ScanStart ==
    /\ ScanBegin
    /\ UNCHANGED <<has_prev, prev_groups>>

\* The same, keeping what the table showed when the scan began.
ScanStartAfter ==
    /\ ScanBegin
    /\ has_prev' = table_shown
    /\ prev_groups' = IF table_shown THEN Groups(table) ELSE {}

\* lines 100-120, one file
PrefixHashStep ==
    /\ pc = "hashing"
    /\ LET path == Head(walk)
           filehash == xxprehashsum(path)
           relative_path == Relpath(path, DirectoryPath)
       IN  /\ prehash_reads' = [prehash_reads EXCEPT ![FileIndex(path)] = @ + 1]
           /\ InsertCandidate(filehash, relative_path)
           /\ IF total_files = 0
              THEN \* ZeroDivisionError at line 115
                   /\ pc' = "aborted"
                   /\ walk' = <<>>
                   /\ UNCHANGED <<processed_files, progress_text, reports, bucket>>
              ELSE /\ processed_files' = processed_files + 1
                   /\ progress_text' = <<processed_files + 1, total_files>>
                   /\ reports' = reports + 1
                   /\ walk' = Tail(walk)
                   /\ pc' = IF Tail(walk) = <<>> THEN "confirming" ELSE "hashing"
                   /\ bucket' = IF Tail(walk) = <<>>
                                THEN SkipMissing(duplicates', hashes', 1)
                                ELSE bucket
    /\ UNCHANGED <<fs, dirs, directory_text, total_files, true_duplicates, pos, full_hash,
                   matches, contents_exists, table_shown, table, full_reads,
                   has_prev, prev_groups, cancel_signal>>

\* line 101 when open() or read() raises OSError: nothing catches it
PrefixHashFail ==
    /\ pc = "hashing"
    /\ Raise
    /\ UNCHANGED <<fs, dirs, directory_text, contents_exists, table_shown, table,
                   progress_text, has_prev, prev_groups, cancel_signal>>

\* lines 125-145, one xxhashsum call and what follows it up to the next
FullHashStep ==
    /\ pc = "confirming"
    /\ bucket <= Len(duplicates)
    /\ LET ap == all_paths(duplicates[bucket], DirectoryPath)
           path == ap[pos]
           h == xxhashsum(path)
           fh == IF pos = 1 THEN h ELSE full_hash
           m == IF pos = 1 THEN <<path>>
                ELSE IF h = full_hash THEN Append(matches, path)
                ELSE matches
       IN  /\ full_reads' = [full_reads EXCEPT ![FileIndex(path)] = @ + 1]
           /\ IF pos = Len(ap)
              THEN /\ true_duplicates' = IF Len(m) > 1
                                         THEN DictSet(true_duplicates, fh, m)
                                         ELSE true_duplicates
                   /\ bucket' = SkipMissing(duplicates, hashes, bucket + 1)
                   /\ pos' = 1
                   /\ full_hash' = 0
                   /\ matches' = <<>>
              ELSE /\ pos' = pos + 1
                   /\ full_hash' = fh
                   /\ matches' = m
                   /\ UNCHANGED <<true_duplicates, bucket>>
    /\ UNCHANGED <<fs, dirs, directory_text, pc, walk, total_files, processed_files,
                   hashes, duplicates, contents_exists, table_shown, table,
                   progress_text, prehash_reads, reports, has_prev, prev_groups,
                   cancel_signal>>

\* lines 136 and 141 when open() or read() raises OSError
FullHashFail ==
    /\ pc = "confirming"
    /\ bucket <= Len(duplicates)
    /\ Raise
    /\ UNCHANGED <<fs, dirs, directory_text, contents_exists, table_shown, table,
                   progress_text, has_prev, prev_groups, cancel_signal>>

\* lines 147-188
RankAndDisplay ==
    /\ pc = "confirming"
    /\ bucket > Len(duplicates)
    /\ table' = TableRows(sorted_duplicates(true_duplicates, DirectoryPath),
                          DirectoryPath)
    /\ table_shown' = TRUE
    /\ progress_text' = <<total_files>>
    /\ pc' = "done"
    /\ DropLocals
    /\ UNCHANGED <<fs, dirs, directory_text, contents_exists, has_prev, prev_groups,
                   cancel_signal>>

\* lines 150-155 when os.path.getsize raises OSError: a group's first file
\* can no longer be stat'ed
RankFail ==
    /\ pc = "confirming"
    /\ bucket > Len(duplicates)
    /\ true_duplicates # <<>>
    /\ Raise
    /\ UNCHANGED <<fs, dirs, directory_text, contents_exists, table_shown, table,
                   progress_text, has_prev, prev_groups, cancel_signal>>

Steps ==
    \/ \E d \in {<<>>, ScanRoot, MissingDir, LabelledDir} : open_directory_selector(d)
    \/ ScanInvalid
    \/ PrefixHashStep
    \/ PrefixHashFail
    \/ FullHashStep
    \/ FullHashFail
    \/ RankAndDisplay
    \/ RankFail

Next == Steps \/ ScanStart

Spec == Init /\ [][Next]_vars

\* Scans in succession, each compared with the one before.
NextTwice == Steps \/ ScanStartAfter

SpecTwice == Init /\ [][NextTwice]_vars

\* The caller asks for cancellation while a scan runs.
SignalCancel ==
    /\ Running
    /\ ~cancel_signal
    /\ cancel_signal' = TRUE
    /\ UNCHANGED <<fs, dirs, directory_text, pc, contents_exists, table_shown, table,
                   progress_text, has_prev, prev_groups>>
    /\ LocalsUnchanged

NextCancel == Next \/ SignalCancel

SpecCancel == Init /\ [][NextCancel]_vars

-----------------------------------------------------------------------------
(* What the claims are stated over *)

\* The rows that hold both of two files.
RowsWith(i, j) ==
    {k \in 1..Len(table) : {AbsPath(i), AbsPath(j)} \subseteq SeqToSet(table[k].paths)}

\* The files in the same prefix bucket as file i.
BucketOf(i) == {j \in Files : xxprehashsum(AbsPath(j)) = xxprehashsum(AbsPath(i))}

ZeroByteFiles == {i \in Files : fs[i] = <<>>}

\* Every xxhashsum call of the confirmation pass has been made.
Confirmed == pc = "confirming" /\ bucket > Len(duplicates)

SameContent(paths) == \A p, q \in SeqToSet(paths) : ReadAll(p) = ReadAll(q)

\* C1: once a scan has completed (every read succeeded), any two files of
\* identical non-empty content are together in exactly one group of the table.
C1_IdenticalFilesGrouped ==
    table_shown =>
        \A i, j \in Files :
            (i < j /\ fs[i] = fs[j] /\ fs[i] # <<>>) => Cardinality(RowsWith(i, j)) = 1

\* C2: no group, in the table or among the confirmed groups held during the
\* scan, has two files of different full content.
C2_GroupsHoldOneContent ==
    /\ \A k \in 1..Len(table) : SameContent(table[k].paths)
    /\ \A k \in 1..Len(true_duplicates) : SameContent(true_duplicates[k].val)
    /\ SameContent(matches)

\* A completed scan of a tree with two files of one size and one prefix
\* digest but different content, one of them in a displayed group.
C2_Witness ==
    /\ table_shown
    /\ \E i, j \in Files :
        /\ fs[i] # fs[j]
        /\ Len(fs[i]) = Len(fs[j])
        /\ j \in BucketOf(i)
        /\ \E k \in 1..Len(table) : AbsPath(i) \in SeqToSet(table[k].paths)

\* C3: a file that cannot be opened or read never aborts the scan.
C3_ReadFailureDoesNotAbort == pc # "aborted"

\* C4: once cancellation is signalled to a running scan, no further file is
\* hashed and the scan does not go on to normal completion.
C4_CancelStopsTheScan ==
    [][(cancel_signal /\ Running) =>
          /\ \A i \in Files : /\ prehash_reads'[i] <= prehash_reads[i]
                              /\ full_reads'[i] <= full_reads[i]
          /\ pc' # "done"]_vars

\* C5: a scan that completes after a completed scan of the same tree shows
\* the same groups (members and sizes), whatever order either walk took.
C5_RescanShowsSameGroups ==
    (pc = "done" /\ has_prev) => Groups(table) = prev_groups

\* C6: no displayed group has size 0 or holds a zero-byte file; when
\* confirmation ends, two or more zero-byte files stand as one internal
\* group, and no internal group mixes empty and non-empty files.
C6_NoZeroByteGroupShown ==
    /\ \A k \in 1..Len(table) :
        /\ table[k].size # 0
        /\ \A p \in SeqToSet(table[k].paths) : getsize(p) # 0
    /\ \A k \in 1..Len(true_duplicates) :
        \A p, q \in SeqToSet(true_duplicates[k].val) :
            (getsize(p) = 0) <=> (getsize(q) = 0)
    /\ (Confirmed /\ Cardinality(ZeroByteFiles) >= 2) =>
        \E k \in 1..Len(true_duplicates) :
            SeqToSet(true_duplicates[k].val) = {AbsPath(i) : i \in ZeroByteFiles}

\* A completed scan of a tree with several zero-byte files and a group of
\* non-empty duplicates.
C6_Witness ==
    /\ table_shown
    /\ Cardinality(ZeroByteFiles) >= 2
    /\ table # <<>>

\* C7: the table's rows are in non-increasing order of size and every row
\* has at least two different paths.
C7_SortedAndAtLeastTwo ==
    /\ \A k \in 1..(Len(table) - 1) : table[k].size >= table[k + 1].size
    /\ \A k \in 1..Len(table) :
        /\ Len(table[k].paths) >= 2
        /\ Cardinality(SeqToSet(table[k].paths)) = Len(table[k].paths)

\* A table of two groups of different sizes.
C7_Witness ==
    /\ table_shown
    /\ Len(table) >= 2
    /\ table[1].size > table[2].size

\* C8: from a state whose selected root (the text of directory_text) is
\* empty, the placeholder or no existing directory, no step walks, hashes,
\* or touches the displayed result: a scan only reports the error.
C8_InvalidRootDoesNothing ==
    [][(directory_text = <<>> \/ directory_text = Placeholder \/ ~isdir(directory_text)) =>
          /\ UNCHANGED <<contents_exists, table_shown, table, progress_text>>
          /\ UNCHANGED <<prehash_reads, full_reads, reports, walk, total_files,
                         processed_files, hashes, duplicates, true_duplicates>>
          /\ pc' \in {pc, "invalid"}]_vars

\* C9: in the hashing loop there is one report per file, it shows
\* (processed, total), processed grows by one per file and stays within
\* 1..total once a file is done; the loop runs only with total > 0, and
\* processed = total when the loop has ended.
C9_ProgressCounts ==
    /\ Running =>
        /\ total_files = Len(fs)
        /\ reports = processed_files
        /\ processed_files <= total_files
        /\ progress_text = <<processed_files, total_files>>
    /\ pc = "hashing" =>
        /\ total_files > 0
        /\ processed_files = Len(fs) - Len(walk)
    /\ pc = "confirming" => processed_files = total_files

\* The hashing loop has ended on a tree of several files.
C9_Witness ==
    /\ pc = "confirming"
    /\ total_files >= 2
    /\ reports = total_files

\* C10: no file is prefix-hashed or full-hashed twice; a full hash is made
\* only when every file has been prefix-hashed and only of a file whose
\* prefix bucket holds two files or more; when the prefix pass has ended
\* every file has been prefix-hashed once.
C10_ReadsBounded ==
    /\ \A i \in Files : prehash_reads[i] <= 1 /\ full_reads[i] <= 1
    /\ \A i \in Files :
        full_reads[i] > 0 =>
            /\ pc = "confirming"
            /\ \A j \in Files : prehash_reads[j] = 1
            /\ Cardinality(BucketOf(i)) >= 2
    /\ pc = "confirming" => \A j \in Files : prehash_reads[j] = 1

\* Confirmation has ended having full-hashed some files and left a file
\* that is alone in its bucket unread.
C10_Witness ==
    /\ Confirmed
    /\ \E i \in Files : full_reads[i] = 1
    /\ \E j \in Files : full_reads[j] = 0 /\ BucketOf(j) = {j}

====
